---------------------------- MODULE Spec2Model ----------------------------
(***************************************************************************)
(* VirtualDisplaySurface (services/surfaceflinger/DisplayHardware):        *)
(* the buffer router of a virtual display.  It multiplexes two buffer      *)
(* sources, the external sink and the internal scratch BufferQueue, behind *)
(* one producer interface used by the GLES driver, and drives the hardware *)
(* composer at advanceFrame / onFrameCommitted.                            *)
(*                                                                         *)
(* The sink, the scratch pool and the hardware composer are collaborators  *)
(* outside this file: every answer they give (status, slot, fence) is an   *)
(* input of the action that asks, drawn from a small set.                  *)
(*                                                                         *)
(* Each handler is written twice.  The operator with the method's name     *)
(* (advanceFrame, dequeueBuffer, ...) is the method's code: from the       *)
(* current fields and the collaborators' answers it gives an outcome, the  *)
(* fields it leaves, the status it returns and the calls it made, in       *)
(* order.  The action with the capitalised name (AdvanceFrame, ...) takes  *)
(* the step: it draws the answers and installs the outcome's fields.       *)
(***************************************************************************)
EXTENDS Integers, Sequences, FiniteSets

VARIABLES
    mDisplayId,            \* int32_t, fixed at construction
    mDbgState,             \* DbgState
    mCompositionType,      \* CompositionType
    mSinkBufferWidth,      \* uint32_t
    mSinkBufferHeight,     \* uint32_t
    mFbFence,              \* sp<Fence>
    mFbProducerSlot,       \* int
    mOutputProducerSlot,   \* int
    mProducerSlotSource,   \* uint32_t, one bit per producer slot
    mProducerBuffers,      \* sp<GraphicBuffer>[NUM_BUFFER_SLOTS]
    mQueueBufferOutput,    \* QueueBufferOutput, reduced to <<width, height>>
    \* the collaborators' books and the caller, kept by FrameSpec only
    sinkBufferCount,       \* the sink hands out native slots below this count
    scratchBufferCount,    \* the scratch pool hands out native slots below it
    sinkDequeued,          \* native sink slots dequeued here and not given back
    scratchSlots,          \* BufferState of every native slot of the scratch pool
    pc,                    \* the caller's position in the frame protocol
    strayCalls             \* the calls made since the caller left the protocol

\* the fields of the VirtualDisplaySurface
fields == <<mDisplayId, mDbgState, mCompositionType, mSinkBufferWidth,
            mSinkBufferHeight, mFbFence, mFbProducerSlot, mOutputProducerSlot,
            mProducerSlotSource, mProducerBuffers, mQueueBufferOutput>>

\* the pools' books and the caller's position
books == <<sinkBufferCount, scratchBufferCount, sinkDequeued, scratchSlots,
           pc, strayCalls>>

vars == <<fields, books>>

---------------------------------------------------------------------------
(* Bounds of the model *)

\* BufferQueue::NUM_BUFFER_SLOTS, 32 in the build; the mask has one bit per slot
NUM_BUFFER_SLOTS == 2

\* FrameSpec follows a caller that left the protocol order for this many calls
MaxStrayCalls == 1

(* Program constants *)

SOURCE_SINK == 0
SOURCE_SCRATCH == 1
NO_ERROR == 0
NO_MEMORY == -12
BUFFER_NEEDS_REALLOCATION == 1
RELEASE_ALL_BUFFERS == 2
NO_FENCE == 0
\* mBufferQueue->setDefaultMaxBufferCount(2): the scratch pool's buffer count
ScratchBufferCount == 2

Slots == 0 .. (NUM_BUFFER_SLOTS - 1)
Sources == {SOURCE_SINK, SOURCE_SCRATCH}
\* the fences the collaborators and the GLES driver hand over
Fences == {1, 2}
\* error statuses of the collaborators (NO_INIT, BAD_VALUE)
Errors == {-19, -22}
CompositionTypes == {"UNKNOWN", "GLES", "HWC", "MIXED"}
DbgStates == {"IDLE", "PREPARED", "GLES", "GLES_DONE", "HWC"}
\* <<width, height>> the GLES driver asks for, and the sink reports
GlesDims == {<<1, 2>>}
SinkDims == {<<2, 1>>}

\* a null sp<GraphicBuffer>
NoBuffer == <<-1, -1>>
\* the GraphicBuffer that source's requestBuffer(sslot) hands out
Buffer(source, sslot) == <<source, sslot>>

\* mProducerBuffers[slot]; a slot outside the array reads no GraphicBuffer of
\* either source
BufferAt(bufs, slot) == IF slot \in Slots THEN bufs[slot] ELSE <<-2, -2>>

\* one call to a collaborator, as an outcome's calls record it
Call(target, op, slot, fence, buf, result) == <<target, op, slot, fence, buf, result>>
SourceName(source) == IF source = SOURCE_SCRATCH THEN "SCRATCH" ELSE "SINK"

---------------------------------------------------------------------------
(* uint32_t arithmetic on the ownership mask and on status words *)

Pow2(n) == 2 ^ n

RECURSIVE BitAnd(_, _)
BitAnd(a, b) ==
    IF a = 0 \/ b = 0 THEN 0
    ELSE (IF a % 2 = 1 /\ b % 2 = 1 THEN 1 ELSE 0) + 2 * BitAnd(a \div 2, b \div 2)

RECURSIVE BitOr(_, _)
BitOr(a, b) ==
    IF a = 0 THEN b
    ELSE IF b = 0 THEN a
    ELSE (IF a % 2 = 1 \/ b % 2 = 1 THEN 1 ELSE 0) + 2 * BitOr(a \div 2, b \div 2)

\* a & ~b
BitClear(a, b) == a - BitAnd(a, b)

---------------------------------------------------------------------------
(* Pure helpers of the class *)

\* mutant: the reflection is off by one
mapSource2ProducerSlot_offByOne(source, sslot) ==
    IF source = SOURCE_SCRATCH
    THEN NUM_BUFFER_SLOTS - sslot
    ELSE sslot

\* mutant: both sources count their slots from the same end
mapSource2ProducerSlot_identity(source, sslot) == sslot

mapSource2ProducerSlot(source, sslot) ==
    IF source = SOURCE_SCRATCH
    THEN NUM_BUFFER_SLOTS - sslot - 1
    ELSE sslot

mapProducer2SourceSlot(source, pslot) == mapSource2ProducerSlot(source, pslot)

\* mutant: the GLES frame, not the MIXED frame, renders into the scratch pool
fbSourceForCompositionType_gles(type) ==
    IF type = "GLES" THEN SOURCE_SCRATCH ELSE SOURCE_SINK

fbSourceForCompositionType(type) ==
    IF type = "MIXED" THEN SOURCE_SCRATCH ELSE SOURCE_SINK

\* mutant: the framebuffer fence survives the reset
resetPerFrameState_keepsFence(st) ==
    [st EXCEPT !.mCompositionType = "UNKNOWN",
               !.mSinkBufferWidth = 0,
               !.mSinkBufferHeight = 0,
               !.mFbProducerSlot = -1,
               !.mOutputProducerSlot = -1]

\* mutant: the reset gives every slot back to the sink
resetPerFrameState_clearsOwnership(st) ==
    [st EXCEPT !.mCompositionType = "UNKNOWN",
               !.mSinkBufferWidth = 0,
               !.mSinkBufferHeight = 0,
               !.mFbFence = NO_FENCE,
               !.mFbProducerSlot = -1,
               !.mOutputProducerSlot = -1,
               !.mProducerSlotSource = 0]

resetPerFrameState(st) ==
    [st EXCEPT !.mCompositionType = "UNKNOWN",
               !.mSinkBufferWidth = 0,
               !.mSinkBufferHeight = 0,
               !.mFbFence = NO_FENCE,
               !.mFbProducerSlot = -1,
               !.mOutputProducerSlot = -1]

\* the source that owns producer slot p according to the mask
SlotSource(mask, p) == (mask \div Pow2(p)) % 2



---------------------------------------------------------------------------
(* What the collaborators may answer *)

\* the native slots a source hands out: the scratch pool has ScratchBufferCount
\* buffers, the sink may use every slot
SourceSlots(source) ==
    IF source = SOURCE_SCRATCH
    THEN {s \in Slots : s < ScratchBufferCount}
    ELSE Slots

\* IGraphicBufferProducer::dequeueBuffer of a source: an error, or a slot and a
\* fence with any of the two flags
DequeueAnswers(source) ==
    {[result |-> e, sslot |-> -1, fence |-> NO_FENCE] : e \in Errors}
    \cup [result : 0 .. (BUFFER_NEEDS_REALLOCATION + RELEASE_ALL_BUFFERS),
          sslot : SourceSlots(source), fence : Fences]

\* the scratch pool's queueBuffer followed by acquireBufferLocked: the statuses,
\* the slot acquired and the fence stored with it (mSlots[item.mBuf].mFence)
AcquireAnswers ==
    {[queued |-> e, acquired |-> NO_ERROR, mBuf |-> -1, fence |-> NO_FENCE] : e \in Errors}
    \cup {[queued |-> NO_ERROR, acquired |-> e, mBuf |-> -1, fence |-> NO_FENCE] : e \in Errors}
    \cup [queued : {NO_ERROR}, acquired : {NO_ERROR},
          mBuf : SourceSlots(SOURCE_SCRATCH), fence : Fences]

\* HWComposer::fbPost and setOutputBuffer; the latter is asked only when the
\* former succeeded
PostAnswers ==
    {h \in [fbPost : {NO_ERROR, -22}, setOutputBuffer : {NO_ERROR, -22}] :
        h.fbPost # NO_ERROR => h.setOutputBuffer = NO_ERROR}

\* onFrameCommitted: the composer's two fences, the sink's queueBuffer status and
\* the geometry it reports
CommitAnswers ==
    [fbFence : Fences, outFence : Fences, result : {NO_ERROR, -22}, qbo : SinkDims]

---------------------------------------------------------------------------
(* Outcomes *)

\* the fields as they are
Cur ==
    [mDbgState |-> mDbgState,
     mCompositionType |-> mCompositionType,
     mSinkBufferWidth |-> mSinkBufferWidth,
     mSinkBufferHeight |-> mSinkBufferHeight,
     mFbFence |-> mFbFence,
     mFbProducerSlot |-> mFbProducerSlot,
     mOutputProducerSlot |-> mOutputProducerSlot,
     mProducerSlotSource |-> mProducerSlotSource,
     mProducerBuffers |-> mProducerBuffers,
     mQueueBufferOutput |-> mQueueBufferOutput]

\* a handler that leaves the fields st, returns NO_ERROR and calls nobody; slot,
\* fence and buf are the handler's out-parameters
Outcome(st) ==
    [st |-> st, ret |-> NO_ERROR, calls |-> <<>>,
     slot |-> -1, fence |-> NO_FENCE, buf |-> NoBuffer]

\* the fields become those of the outcome
Install(o) ==
    /\ mDbgState' = o.st.mDbgState
    /\ mCompositionType' = o.st.mCompositionType
    /\ mSinkBufferWidth' = o.st.mSinkBufferWidth
    /\ mSinkBufferHeight' = o.st.mSinkBufferHeight
    /\ mFbFence' = o.st.mFbFence
    /\ mFbProducerSlot' = o.st.mFbProducerSlot
    /\ mOutputProducerSlot' = o.st.mOutputProducerSlot
    /\ mProducerSlotSource' = o.st.mProducerSlotSource
    /\ mProducerBuffers' = o.st.mProducerBuffers
    /\ mQueueBufferOutput' = o.st.mQueueBufferOutput
    /\ UNCHANGED mDisplayId

\* a step of Spec: the outcome is installed, nobody keeps the pools' books
Apply(o) == Install(o) /\ UNCHANGED books

---------------------------------------------------------------------------
(* dequeueBuffer(Source source, ...), the private overload *)

\* the slot's bit in the mask differs from the calling source's
slotChangedSource(mask, source, pslot) ==
    BitAnd(mask, Pow2(pslot)) # source * Pow2(pslot)

\* mutant: the slot's old bit is not cleared
retagSlot_keepsBit(mask, source, pslot) ==
    BitOr(mask, source * Pow2(pslot))

\* the slot's bit is cleared and set to the calling source
retagSlot(mask, source, pslot) ==
    BitOr(BitClear(mask, Pow2(pslot)), source * Pow2(pslot))

\* mutant: an ownership change does not ask for reallocation
flagReallocation_never(result, changed) == result

\* the status word once an ownership change was seen
flagReallocation(result, changed) ==
    IF changed THEN BitOr(result, BUFFER_NEEDS_REALLOCATION) ELSE result

\* RELEASE_ALL_BUFFERS: the loop over all slots
releaseAllBuffers(bufs, mask, sourceBit) ==
    [i \in Slots |->
        IF BitAnd(mask, Pow2(i)) = sourceBit THEN NoBuffer ELSE bufs[i]]

\* a is the source's answer; st are the fields when the call is made
dequeueBuffer_Source(source, a, st) ==
    LET deq == Call(SourceName(source), "dequeueBuffer", a.sslot, a.fence,
                    NoBuffer, a.result)
    IN
    IF a.result < 0
    THEN [Outcome(st) EXCEPT !.ret = a.result, !.calls = <<deq>>]
    ELSE
    LET pslot == mapSource2ProducerSlot(source, a.sslot)
        sourceBit == source * Pow2(pslot)
        changed == slotChangedSource(st.mProducerSlotSource, source, pslot)
        result == flagReallocation(a.result, changed)
        mask1 == IF changed
                 THEN retagSlot(st.mProducerSlotSource, source, pslot)
                 ELSE st.mProducerSlotSource
        bufs1 == IF BitAnd(result, RELEASE_ALL_BUFFERS) # 0
                 THEN releaseAllBuffers(st.mProducerBuffers, mask1, sourceBit)
                 ELSE st.mProducerBuffers
        realloc == BitAnd(result, BUFFER_NEEDS_REALLOCATION) # 0
        bufs2 == IF realloc
                 THEN [bufs1 EXCEPT ![pslot] = Buffer(source, a.sslot)]
                 ELSE bufs1
        req == Call(SourceName(source), "requestBuffer", a.sslot, NO_FENCE,
                    Buffer(source, a.sslot), NO_ERROR)
    IN  [Outcome([st EXCEPT !.mProducerSlotSource = mask1,
                            !.mProducerBuffers = bufs2])
            EXCEPT !.ret = result,
                   !.calls = IF realloc THEN <<deq, req>> ELSE <<deq>>,
                   !.slot = a.sslot,
                   !.fence = a.fence]


---------------------------------------------------------------------------
(* The DisplaySurface interface *)

\* "this" is the VirtualDisplaySurface itself, "sink" is mSource[SOURCE_SINK]
getIGraphicBufferProducer ==
    IF mDisplayId >= 0 THEN "this" ELSE "sink"

\* mutant: a display without a hardware composer id runs the protocol too
prepareFrame_noPassthrough(compositionType) ==
    Outcome([Cur EXCEPT !.mDbgState = "PREPARED",
                        !.mCompositionType = compositionType])

\* mutant: prepareFrame is refused unless the frame state is IDLE
prepareFrame_onlyFromIdle(compositionType) ==
    IF mDisplayId < 0 \/ mDbgState # "IDLE"
    THEN Outcome(Cur)
    ELSE Outcome([Cur EXCEPT !.mDbgState = "PREPARED",
                             !.mCompositionType = compositionType])

prepareFrame(compositionType) ==
    IF mDisplayId < 0
    THEN Outcome(Cur)
    ELSE Outcome([Cur EXCEPT !.mDbgState = "PREPARED",
                             !.mCompositionType = compositionType])

\* mutant: on a HWC frame the framebuffer keeps the fence it had
advanceFrameRoute_hwcKeepsFbFence(type, fbSlot, fbFence, outSlot, outFence) ==
    IF type = "HWC"
    THEN [fbSlot |-> outSlot, fbFence |-> fbFence,
          outSlot |-> outSlot, outFence |-> outFence]
    ELSE IF type = "GLES"
    THEN [fbSlot |-> fbSlot, fbFence |-> fbFence,
          outSlot |-> fbSlot, outFence |-> fbFence]
    ELSE [fbSlot |-> fbSlot, fbFence |-> fbFence,
          outSlot |-> outSlot, outFence |-> outFence]

\* mutant: a GLES frame has no output slot
advanceFrameRoute_glesNoOutput(type, fbSlot, fbFence, outSlot, outFence) ==
    IF type = "HWC"
    THEN [fbSlot |-> outSlot, fbFence |-> outFence,
          outSlot |-> outSlot, outFence |-> outFence]
    ELSE [fbSlot |-> fbSlot, fbFence |-> fbFence,
          outSlot |-> outSlot, outFence |-> outFence]

\* lines 135-146: which slot and fence back the framebuffer and the output
advanceFrameRoute(type, fbSlot, fbFence, outSlot, outFence) ==
    IF type = "HWC"
    THEN [fbSlot |-> outSlot, fbFence |-> outFence,
          outSlot |-> outSlot, outFence |-> outFence]
    ELSE IF type = "GLES"
    THEN [fbSlot |-> fbSlot, fbFence |-> fbFence,
          outSlot |-> fbSlot, outFence |-> fbFence]
    ELSE [fbSlot |-> fbSlot, fbFence |-> fbFence,
          outSlot |-> outSlot, outFence |-> outFence]

\* mutant: only the output slot is looked at
noBuffer_onlyOutput(fbSlot, outSlot) == outSlot < 0

\* lines 148-156: the last-chance bailout
noBuffer(fbSlot, outSlot) == fbSlot < 0 \/ outSlot < 0

\* mutant: the sink's error is replaced by NO_MEMORY
sinkDequeueFailed_noMemory(result) == NO_MEMORY

\* lines 130-131: what advanceFrame returns when the sink's dequeue failed
sinkDequeueFailed(result) == result

\* lines 158-169: the two composer calls and the status returned
submitToHwc(r, bufs, h) ==
    [calls |-> <<Call("HWC", "fbPost", r.fbSlot, r.fbFence,
                      BufferAt(bufs, r.fbSlot), h.fbPost)>>
               \o (IF h.fbPost = NO_ERROR
                   THEN <<Call("HWC", "setOutputBuffer", r.outSlot, r.outFence,
                               BufferAt(bufs, r.outSlot), h.setOutputBuffer)>>
                   ELSE <<>>),
     ret |-> IF h.fbPost = NO_ERROR THEN h.setOutputBuffer ELSE h.fbPost]

\* a is the sink's answer to dequeueBuffer, h the composer's answers
advanceFrame(a, h) ==
    IF mDisplayId < 0
    THEN Outcome(Cur)
    ELSE
    LET st0 == [Cur EXCEPT !.mDbgState = "HWC"]
        dequeues == mCompositionType # "GLES"
        st1 == IF dequeues
               THEN [st0 EXCEPT !.mSinkBufferWidth = mQueueBufferOutput[1],
                                !.mSinkBufferHeight = mQueueBufferOutput[2]]
               ELSE st0
        d == IF dequeues
             THEN dequeueBuffer_Source(SOURCE_SINK, a, st1)
             ELSE Outcome(st1)
    IN
    IF dequeues /\ d.ret < 0
    THEN [d EXCEPT !.ret = sinkDequeueFailed(d.ret),
                   !.slot = -1, !.fence = NO_FENCE]
    ELSE
    LET outSlot == IF dequeues
                   THEN mapSource2ProducerSlot(SOURCE_SINK, d.slot)
                   ELSE mOutputProducerSlot
        r == advanceFrameRoute(mCompositionType, mFbProducerSlot, mFbFence,
                               outSlot, d.fence)
        st2 == [d.st EXCEPT !.mFbProducerSlot = r.fbSlot,
                            !.mFbFence = r.fbFence,
                            !.mOutputProducerSlot = r.outSlot]
    IN
    IF noBuffer(r.fbSlot, r.outSlot)
    THEN [Outcome(st2) EXCEPT !.ret = NO_MEMORY, !.calls = d.calls]
    ELSE
    LET p == submitToHwc(r, st2.mProducerBuffers, h)
    IN  [Outcome(st2) EXCEPT !.ret = p.ret, !.calls = d.calls \o p.calls]

\* mutant: the framebuffer is released to the scratch pool on every frame
releaseScratch_anyMode(type, fbSlot, bufs, fbFence) ==
    IF fbSlot >= 0
    THEN LET sslot == mapProducer2SourceSlot(SOURCE_SCRATCH, fbSlot)
         IN  <<Call("SCRATCH", "addReleaseFence", sslot, fbFence, bufs[fbSlot], NO_ERROR),
               Call("SCRATCH", "releaseBuffer", sslot, NO_FENCE, bufs[fbSlot], NO_ERROR)>>
    ELSE <<>>

\* mutant: producer slot 0 is taken for "no framebuffer"
releaseScratch_positiveSlot(type, fbSlot, bufs, fbFence) ==
    IF type = "MIXED" /\ fbSlot > 0
    THEN LET sslot == mapProducer2SourceSlot(SOURCE_SCRATCH, fbSlot)
         IN  <<Call("SCRATCH", "addReleaseFence", sslot, fbFence, bufs[fbSlot], NO_ERROR),
               Call("SCRATCH", "releaseBuffer", sslot, NO_FENCE, bufs[fbSlot], NO_ERROR)>>
    ELSE <<>>

\* lines 180-189: the scratch buffer goes back to the pool
releaseScratch(type, fbSlot, bufs, fbFence) ==
    IF type = "MIXED" /\ fbSlot >= 0
    THEN LET sslot == mapProducer2SourceSlot(SOURCE_SCRATCH, fbSlot)
         IN  <<Call("SCRATCH", "addReleaseFence", sslot, fbFence, bufs[fbSlot], NO_ERROR),
               Call("SCRATCH", "releaseBuffer", sslot, NO_FENCE, bufs[fbSlot], NO_ERROR)>>
    ELSE <<>>

\* lines 191-204: the output buffer is queued to the sink
queueSink(outSlot, outFence, result) ==
    IF outSlot >= 0
    THEN <<Call("HWC", "getLastRetireFence", -1, outFence, NoBuffer, NO_ERROR),
           Call("SINK", "queueBuffer", mapProducer2SourceSlot(SOURCE_SINK, outSlot),
                outFence, NoBuffer, result)>>
    ELSE <<>>

\* mutant: a failing queueBuffer of the sink ends the handler before the reset
onFrameCommitted_returnsOnQueueFailure(c) ==
    IF mDisplayId < 0
    THEN Outcome(Cur)
    ELSE
    LET st0 == [Cur EXCEPT !.mDbgState = "IDLE"]
        calls == <<Call("HWC", "getAndResetReleaseFence", -1, c.fbFence,
                        NoBuffer, NO_ERROR)>>
                 \o releaseScratch(mCompositionType, mFbProducerSlot,
                                   mProducerBuffers, c.fbFence)
                 \o queueSink(mOutputProducerSlot, c.outFence, c.result)
    IN  IF mOutputProducerSlot >= 0 /\ c.result # NO_ERROR
        THEN [Outcome(st0) EXCEPT !.calls = calls]
        ELSE [Outcome(resetPerFrameState(
                          IF mOutputProducerSlot >= 0
                          THEN [st0 EXCEPT !.mQueueBufferOutput = c.qbo]
                          ELSE st0))
                 EXCEPT !.calls = calls]

\* c are the composer's fences and the sink's answer to queueBuffer
onFrameCommitted(c) ==
    IF mDisplayId < 0
    THEN Outcome(Cur)
    ELSE
    LET st0 == [Cur EXCEPT !.mDbgState = "IDLE"]
        st1 == IF mOutputProducerSlot >= 0 /\ c.result = NO_ERROR
               THEN [st0 EXCEPT !.mQueueBufferOutput = c.qbo]
               ELSE st0
    IN  [Outcome(resetPerFrameState(st1)) EXCEPT
            !.calls = <<Call("HWC", "getAndResetReleaseFence", -1, c.fbFence,
                             NoBuffer, NO_ERROR)>>
                      \o releaseScratch(mCompositionType, mFbProducerSlot,
                                        mProducerBuffers, c.fbFence)
                      \o queueSink(mOutputProducerSlot, c.outFence, c.result)]

---------------------------------------------------------------------------
(* The IGraphicBufferProducer interface *)

requestBuffer(pslot) ==
    [Outcome(Cur) EXCEPT !.buf = mProducerBuffers[pslot]]

\* setBufferCount, query, setSynchronousMode, disconnect: forwarded to the sink
forwardToSink(op, result) ==
    [Outcome(Cur) EXCEPT !.ret = result,
                         !.calls = <<Call("SINK", op, -1, NO_FENCE, NoBuffer, result)>>]

setBufferCount(result) == forwardToSink("setBufferCount", result)
query(result) == forwardToSink("query", result)
setSynchronousMode(result) == forwardToSink("setSynchronousMode", result)
disconnect(result) == forwardToSink("disconnect", result)

connect(result, qbo) ==
    [Outcome(IF result = NO_ERROR
             THEN [Cur EXCEPT !.mQueueBufferOutput = qbo]
             ELSE Cur)
        EXCEPT !.ret = result,
               !.calls = <<Call("SINK", "connect", -1, NO_FENCE, NoBuffer, result)>>]

\* mutant: the slot is mapped and reported whatever the source answered
dequeueBuffer_reportsSlotOnFailure(w, h, a) ==
    LET source == fbSourceForCompositionType(mCompositionType)
        st0 == [Cur EXCEPT !.mDbgState = "GLES"]
        st1 == IF source = SOURCE_SINK
               THEN [st0 EXCEPT !.mSinkBufferWidth = w, !.mSinkBufferHeight = h]
               ELSE st0
        d == dequeueBuffer_Source(source, a, st1)
    IN  [d EXCEPT !.slot = mapSource2ProducerSlot(source, a.sslot)]

\* a is the answer of the source the dequeue goes to
dequeueBuffer(w, h, a) ==
    LET source == fbSourceForCompositionType(mCompositionType)
        st0 == [Cur EXCEPT !.mDbgState = "GLES"]
        st1 == IF source = SOURCE_SINK
               THEN [st0 EXCEPT !.mSinkBufferWidth = w, !.mSinkBufferHeight = h]
               ELSE st0
        d == dequeueBuffer_Source(source, a, st1)
    IN  [d EXCEPT !.slot = IF d.ret >= 0
                           THEN mapSource2ProducerSlot(source, d.slot)
                           ELSE -1]

\* mutant: the slot just queued is taken for the slot acquired
acquiredFbSlot_asQueued(sslot, mBuf) ==
    mapSource2ProducerSlot(SOURCE_SCRATCH, sslot)

\* line 311: the framebuffer slot is that of the item acquired
acquiredFbSlot(sslot, mBuf) ==
    mapSource2ProducerSlot(SOURCE_SCRATCH, mBuf)

\* a are the scratch pool's answers to queueBuffer and acquireBufferLocked
queueBuffer(pslot, inputFence, a) ==
    LET st0 == [Cur EXCEPT !.mDbgState = "GLES_DONE"]
    IN
    IF mCompositionType = "MIXED"
    THEN LET sslot == mapProducer2SourceSlot(SOURCE_SCRATCH, pslot)
             q == Call("SCRATCH", "queueBuffer", sslot, inputFence, NoBuffer, a.queued)
             acq == Call("SCRATCH", "acquireBuffer", a.mBuf, a.fence, NoBuffer, a.acquired)
         IN  IF a.queued # NO_ERROR
             THEN [Outcome(st0) EXCEPT !.ret = a.queued, !.calls = <<q>>]
             ELSE IF a.acquired # NO_ERROR
             THEN [Outcome(st0) EXCEPT !.ret = a.acquired, !.calls = <<q, acq>>]
             ELSE [Outcome([st0 EXCEPT
                              !.mFbProducerSlot = acquiredFbSlot(sslot, a.mBuf),
                              !.mFbFence = a.fence])
                      EXCEPT !.calls = <<q, acq>>]
    ELSE Outcome([st0 EXCEPT !.mFbFence = inputFence, !.mFbProducerSlot = pslot])

\* mutant: the slot is always handed to the sink
cancelBuffer_alwaysSink(pslot, fence) ==
    [Outcome(Cur) EXCEPT
        !.calls = <<Call("SINK", "cancelBuffer",
                         mapProducer2SourceSlot(SOURCE_SINK, pslot), fence,
                         NoBuffer, NO_ERROR)>>]

cancelBuffer(pslot, fence) ==
    LET source == fbSourceForCompositionType(mCompositionType)
    IN  [Outcome(Cur) EXCEPT
            !.calls = <<Call(SourceName(source), "cancelBuffer",
                             mapProducer2SourceSlot(source, pslot), fence,
                             NoBuffer, NO_ERROR)>>]

---------------------------------------------------------------------------
(* The state machine *)

\* the constructor: every producer slot belongs to the sink and holds no
\* buffer; mQueueBufferOutput is left as constructed, its value is arbitrary
InitFields ==
    /\ mDisplayId \in {-1, 0}
    /\ mDbgState = "IDLE"
    /\ mCompositionType = "UNKNOWN"
    /\ mSinkBufferWidth = 0
    /\ mSinkBufferHeight = 0
    /\ mFbFence = NO_FENCE
    /\ mFbProducerSlot = -1
    /\ mOutputProducerSlot = -1
    /\ mProducerSlotSource = 0
    /\ mProducerBuffers = [i \in Slots |-> NoBuffer]
    /\ mQueueBufferOutput \in SinkDims

\* nothing is dequeued, the scratch pool's slots are FREE, no frame is open
InitBooks ==
    /\ sinkDequeued = {}
    /\ scratchSlots = [s \in SourceSlots(SOURCE_SCRATCH) |-> "FREE"]
    /\ pc = "idle"
    /\ strayCalls = 0

\* Spec: each pool may hand out every slot it has
Init ==
    /\ InitFields
    /\ InitBooks
    /\ sinkBufferCount = NUM_BUFFER_SLOTS
    /\ scratchBufferCount = ScratchBufferCount

GetIGraphicBufferProducer ==
    /\ getIGraphicBufferProducer \in {"this", "sink"}
    /\ UNCHANGED vars

PrepareFrame == \E t \in CompositionTypes : Apply(prepareFrame(t))

\* the sink is asked for a buffer only when the frame is not a GLES frame
AdvanceFrame ==
    \E a \in (IF mCompositionType # "GLES" /\ mDisplayId >= 0
              THEN DequeueAnswers(SOURCE_SINK)
              ELSE {[result |-> NO_ERROR, sslot |-> -1, fence |-> NO_FENCE]}) :
    \E h \in PostAnswers :
        Apply(advanceFrame(a, h))

OnFrameCommitted == \E c \in CommitAnswers : Apply(onFrameCommitted(c))

(***************************************************************************)
(* Only a display with mDisplayId >= 0 hands itself out as the producer    *)
(* (getIGraphicBufferProducer); with mDisplayId < 0 the GLES driver holds  *)
(* the sink itself and the methods below have no caller.                   *)
(***************************************************************************)
IsProducer == getIGraphicBufferProducer = "this"

RequestBuffer == IsProducer /\ \E p \in Slots : Apply(requestBuffer(p))

SetBufferCount == IsProducer /\ \E r \in {NO_ERROR, -22} : Apply(setBufferCount(r))

Query == IsProducer /\ \E r \in {NO_ERROR, -22} : Apply(query(r))

SetSynchronousMode == IsProducer /\ \E r \in {NO_ERROR, -22} : Apply(setSynchronousMode(r))

Disconnect == IsProducer /\ \E r \in {NO_ERROR, -22} : Apply(disconnect(r))

Connect == IsProducer /\ \E r \in {NO_ERROR, -22}, q \in SinkDims : Apply(connect(r, q))

DequeueBuffer ==
    /\ IsProducer
    /\ \E d \in GlesDims :
       \E a \in DequeueAnswers(fbSourceForCompositionType(mCompositionType)) :
           Apply(dequeueBuffer(d[1], d[2], a))

\* the scratch pool is asked only on a MIXED frame
QueueBuffer ==
    /\ IsProducer
    /\ \E p \in Slots, f \in Fences :
       \E a \in (IF mCompositionType = "MIXED"
                 THEN AcquireAnswers
                 ELSE {[queued |-> NO_ERROR, acquired |-> NO_ERROR,
                        mBuf |-> -1, fence |-> NO_FENCE]}) :
           Apply(queueBuffer(p, f, a))

CancelBuffer == IsProducer /\ \E p \in Slots, f \in Fences : Apply(cancelBuffer(p, f))

Next ==
    \/ GetIGraphicBufferProducer
    \/ PrepareFrame
    \/ AdvanceFrame
    \/ OnFrameCommitted
    \/ RequestBuffer
    \/ SetBufferCount
    \/ Query
    \/ SetSynchronousMode
    \/ Disconnect
    \/ Connect
    \/ DequeueBuffer
    \/ QueueBuffer
    \/ CancelBuffer

Spec == Init /\ [][Next]_vars

---------------------------------------------------------------------------
(* The pools' books.  The sink and the scratch pool are BufferQueues: a     *)
(* slot handed out by dequeueBuffer is DEQUEUED until it is queued or       *)
(* cancelled, a pool hands out only slots below its buffer count that are   *)
(* not handed out already, queueBuffer takes only a DEQUEUED slot, and      *)
(* acquireBuffer gives a QUEUED one.                                        *)

BufferStates == {"FREE", "DEQUEUED", "QUEUED", "ACQUIRED"}

\* the books as they are
CurBooks == [sink |-> sinkDequeued, scratch |-> scratchSlots]

\* the scratch pool's slot moves to state `to` when it is in state `from`
moveScratch(b, slot, from, to) ==
    IF slot \in DOMAIN b.scratch /\ b.scratch[slot] \in from
    THEN [b EXCEPT !.scratch[slot] = to]
    ELSE b

\* the books after one call made on a pool
bookCall(b, call) ==
    LET target == call[1]
        op == call[2]
        slot == call[3]
        result == call[6]
    IN  IF target = "SINK"
        THEN IF op = "dequeueBuffer" /\ result >= 0
             THEN [b EXCEPT !.sink = @ \cup {slot}]
             ELSE IF op \in {"queueBuffer", "cancelBuffer"}
             THEN [b EXCEPT !.sink = @ \ {slot}]
             ELSE b
        ELSE IF target = "SCRATCH"
        THEN IF op = "dequeueBuffer" /\ result >= 0
             THEN moveScratch(b, slot, {"FREE"}, "DEQUEUED")
             ELSE IF op = "queueBuffer" /\ result = NO_ERROR
             THEN moveScratch(b, slot, {"DEQUEUED"}, "QUEUED")
             ELSE IF op = "acquireBuffer" /\ result = NO_ERROR
             THEN moveScratch(b, slot, {"QUEUED"}, "ACQUIRED")
             ELSE IF op = "releaseBuffer"
             THEN moveScratch(b, slot, {"ACQUIRED"}, "FREE")
             ELSE IF op = "cancelBuffer"
             THEN moveScratch(b, slot, {"DEQUEUED"}, "FREE")
             ELSE b
        ELSE b

\* the books after the calls of a handler, in order
RECURSIVE booksAfter(_, _)
booksAfter(b, calls) ==
    IF calls = <<>>
    THEN b
    ELSE booksAfter(bookCall(b, Head(calls)), Tail(calls))

\* the sink's answers to dequeueBuffer: a slot it has and has not handed out
SinkAnswers ==
    {[result |-> e, sslot |-> -1, fence |-> NO_FENCE] : e \in Errors}
    \cup [result : 0 .. (BUFFER_NEEDS_REALLOCATION + RELEASE_ALL_BUFFERS),
          sslot : {s \in Slots : s < sinkBufferCount /\ s \notin sinkDequeued},
          fence : Fences]

\* the scratch pool's answers to dequeueBuffer: a FREE slot; when it frees all
\* its buffers the slot handed out has none and needs reallocation
ScratchAnswers ==
    {[result |-> e, sslot |-> -1, fence |-> NO_FENCE] : e \in Errors}
    \cup [result : {0, BUFFER_NEEDS_REALLOCATION,
                    BUFFER_NEEDS_REALLOCATION + RELEASE_ALL_BUFFERS},
          sslot : {s \in DOMAIN scratchSlots :
                      s < scratchBufferCount /\ scratchSlots[s] = "FREE"},
          fence : Fences]

PoolAnswers(source) ==
    IF source = SOURCE_SCRATCH THEN ScratchAnswers ELSE SinkAnswers

\* the scratch pool's answers to queueBuffer(sslot) and acquireBufferLocked
ScratchQueueAnswers(sslot) ==
    {[queued |-> e, acquired |-> NO_ERROR, mBuf |-> -1, fence |-> NO_FENCE] : e \in Errors}
    \cup (IF sslot \in DOMAIN scratchSlots /\ scratchSlots[sslot] = "DEQUEUED"
          THEN {[queued |-> NO_ERROR, acquired |-> e, mBuf |-> -1, fence |-> NO_FENCE] :
                    e \in Errors}
               \cup [queued : {NO_ERROR}, acquired : {NO_ERROR},
                     mBuf : {sslot} \cup {s \in DOMAIN scratchSlots :
                                             scratchSlots[s] = "QUEUED"},
                     fence : Fences]
          ELSE {})

---------------------------------------------------------------------------
(* The caller.  The frame protocol is prepareFrame, then on a GLES or      *)
(* MIXED frame optionally dequeueBuffer followed by queueBuffer or         *)
(* cancelBuffer of the slot dequeued, then advanceFrame, then              *)
(* onFrameCommitted.  pc is the caller's position; it is "off" for good    *)
(* once a call is made out of this order, and strayCalls counts the calls  *)
(* made from then on.                                                      *)

Positions ==
    {"idle", "prepared", "rendering", "norender", "queued", "cancelled",
     "advanced", "off"}

\* the producer slot is the one the GLES driver holds
heldByRenderer(pslot) ==
    IF mCompositionType = "MIXED"
    THEN LET sslot == mapProducer2SourceSlot(SOURCE_SCRATCH, pslot)
         IN  sslot \in DOMAIN scratchSlots /\ scratchSlots[sslot] = "DEQUEUED"
    ELSE mapProducer2SourceSlot(SOURCE_SINK, pslot) \in sinkDequeued

\* the position after a call made at one of the positions `from`
after(from, inOrder, to) ==
    IF pc \in from /\ inOrder THEN to ELSE "off"

\* a step of FrameSpec: the outcome is installed and the pools note its calls
Step(o, to) ==
    /\ Install(o)
    /\ sinkDequeued' = booksAfter(CurBooks, o.calls).sink
    /\ scratchSlots' = booksAfter(CurBooks, o.calls).scratch
    /\ pc' = to
    /\ IF to = "off"
       THEN strayCalls < MaxStrayCalls /\ strayCalls' = strayCalls + 1
       ELSE strayCalls' = strayCalls
    /\ UNCHANGED <<sinkBufferCount, scratchBufferCount>>

FramePrepareFrame ==
    \E t \in CompositionTypes :
        Step(prepareFrame(t),
             after({"idle"}, t \in {"GLES", "HWC", "MIXED"}, "prepared"))

FrameDequeueBuffer ==
    /\ IsProducer
    /\ \E d \in GlesDims :
       \E a \in PoolAnswers(fbSourceForCompositionType(mCompositionType)) :
           Step(dequeueBuffer(d[1], d[2], a),
                after({"prepared"}, mCompositionType \in {"GLES", "MIXED"},
                      IF a.result >= 0 THEN "rendering" ELSE "norender"))

FrameQueueBuffer ==
    /\ IsProducer
    /\ \E p \in Slots, f \in Fences :
       \E a \in (IF mCompositionType = "MIXED"
                 THEN ScratchQueueAnswers(mapProducer2SourceSlot(SOURCE_SCRATCH, p))
                 ELSE {[queued |-> NO_ERROR, acquired |-> NO_ERROR,
                        mBuf |-> -1, fence |-> NO_FENCE]}) :
           Step(queueBuffer(p, f, a),
                after({"rendering"}, heldByRenderer(p), "queued"))

FrameCancelBuffer ==
    /\ IsProducer
    /\ \E p \in Slots, f \in Fences :
           Step(cancelBuffer(p, f),
                after({"rendering"}, heldByRenderer(p), "cancelled"))

FrameAdvanceFrame ==
    \E a \in (IF mCompositionType # "GLES" /\ mDisplayId >= 0
              THEN SinkAnswers
              ELSE {[result |-> NO_ERROR, sslot |-> -1, fence |-> NO_FENCE]}) :
    \E h \in PostAnswers :
        Step(advanceFrame(a, h),
             after({"prepared", "norender", "queued", "cancelled"}, TRUE,
                   "advanced"))

FrameOnFrameCommitted ==
    \E c \in CommitAnswers :
        Step(onFrameCommitted(c), after({"advanced"}, TRUE, "idle"))

\* the pools' buffer counts are theirs to choose
FrameInit ==
    /\ InitFields
    /\ InitBooks
    /\ sinkBufferCount \in 1 .. NUM_BUFFER_SLOTS
    /\ scratchBufferCount \in 1 .. ScratchBufferCount

\* the calls that leave the books and the position alone are those of Spec
FrameNext ==
    \/ GetIGraphicBufferProducer
    \/ FramePrepareFrame
    \/ FrameAdvanceFrame
    \/ FrameOnFrameCommitted
    \/ RequestBuffer
    \/ SetBufferCount
    \/ Query
    \/ SetSynchronousMode
    \/ Disconnect
    \/ Connect
    \/ FrameDequeueBuffer
    \/ FrameQueueBuffer
    \/ FrameCancelBuffer

FrameSpec == FrameInit /\ [][FrameNext]_vars


---------------------------------------------------------------------------
(* Reading outcomes *)

\* the calls of an outcome made to target with the name op, by position
CallsTo(o, target, op) ==
    {i \in 1 .. Len(o.calls) : o.calls[i][1] = target /\ o.calls[i][2] = op}

CallSlot(o, i) == o.calls[i][3]
CallFence(o, i) == o.calls[i][4]
CallBuffer(o, i) == o.calls[i][5]

\* the calls of an outcome made to the hardware composer with a buffer
Submissions(o) == CallsTo(o, "HWC", "fbPost") \cup CallsTo(o, "HWC", "setOutputBuffer")

\* the calls of an outcome made to the sink, the scratch pool or the composer
NoCalls(o) == o.calls = <<>>

HasFlag(result, flag) == result >= 0 /\ (result \div flag) % 2 = 1

\* every answer a dequeueBuffer of either source may give
AnyDequeueAnswers == DequeueAnswers(SOURCE_SINK) \cup DequeueAnswers(SOURCE_SCRATCH)

PerFrameDefaults(st) ==
    /\ st.mCompositionType = "UNKNOWN"
    /\ st.mSinkBufferWidth = 0
    /\ st.mSinkBufferHeight = 0
    /\ st.mFbFence = NO_FENCE
    /\ st.mFbProducerSlot = -1
    /\ st.mOutputProducerSlot = -1

---------------------------------------------------------------------------
(* C1: on a display with mDisplayId >= 0, whatever the fields are when      *)
(* onFrameCommitted is called and whatever the composer and the sink       *)
(* answer, the fields it leaves are the per-frame defaults (mode UNKNOWN,  *)
(* width = height = 0, NO_FENCE, both slots -1) with the state IDLE; and   *)
(* so every state in which the frame state is IDLE holds the defaults.     *)
C1_FrameStateReset ==
    mDisplayId >= 0 =>
        /\ \A c \in CommitAnswers :
              LET o == onFrameCommitted(c)
              IN  PerFrameDefaults(o.st) /\ o.st.mDbgState = "IDLE"
        /\ (mDbgState = "IDLE" => PerFrameDefaults(Cur))

\* IDLE again after a frame: a buffer was dequeued (which leaves IDLE) and only
\* onFrameCommitted leads back
C1_Witness ==
    /\ mDisplayId >= 0
    /\ mDbgState = "IDLE"
    /\ \E p \in Slots : mProducerBuffers[p] # NoBuffer

(* C2: the slot mapping is its own inverse on 0..N-1 for both sources,     *)
(* stays in 0..N-1, is the identity for the sink and s -> N-1-s for the    *)
(* scratch pool; and the buffer kept at producer slot p is the one its     *)
(* source handed out for the native slot that p maps back to.              *)
C2_MappingInvolution ==
    /\ \A source \in Sources, s \in Slots :
          /\ mapProducer2SourceSlot(source, mapSource2ProducerSlot(source, s)) = s
          /\ mapSource2ProducerSlot(source, s) \in Slots
    /\ \A s \in Slots :
          /\ mapSource2ProducerSlot(SOURCE_SINK, s) = s
          /\ mapSource2ProducerSlot(SOURCE_SCRATCH, s) = NUM_BUFFER_SLOTS - 1 - s
    /\ \A p \in Slots :
          mProducerBuffers[p] # NoBuffer =>
              mapProducer2SourceSlot(mProducerBuffers[p][1], p) = mProducerBuffers[p][2]

\* a scratch buffer sits at the reflected slot, away from its native slot
C2_Witness ==
    \E p \in Slots, s \in Slots :
        /\ mProducerBuffers[p] = Buffer(SOURCE_SCRATCH, s)
        /\ p = NUM_BUFFER_SLOTS - 1 - s
        /\ p # s


(* C3: routing depends on the composition type alone.  The GLES driver's   *)
(* dequeueBuffer goes to the scratch pool exactly when the type is MIXED,  *)
(* to the sink otherwise.  When advanceFrame submits to the composer: on   *)
(* an HWC frame the framebuffer and the output slot are both the sink slot *)
(* this advanceFrame dequeued; on a GLES frame advanceFrame dequeues       *)
(* nothing and the output slot is the framebuffer slot it found; on a      *)
(* MIXED frame the framebuffer slot is the one it found and the output     *)
(* slot is the sink slot it dequeued.  fbPost gets the framebuffer slot's  *)
(* buffer, setOutputBuffer the output slot's.                              *)
C3_ModeRouting ==
    /\ \A d \in GlesDims, a \in AnyDequeueAnswers :
          LET o == dequeueBuffer(d[1], d[2], a)
              target == IF mCompositionType = "MIXED" THEN "SCRATCH" ELSE "SINK"
          IN  /\ CallsTo(o, target, "dequeueBuffer") = {1}
              /\ \A i \in 1 .. Len(o.calls) : o.calls[i][1] = target
    /\ mDisplayId >= 0 =>
          \A a \in DequeueAnswers(SOURCE_SINK), h \in PostAnswers :
              LET o == advanceFrame(a, h)
                  deq == CallsTo(o, "SINK", "dequeueBuffer")
              IN  Submissions(o) # {} =>
                    /\ mCompositionType = "HWC" =>
                          /\ deq = {1}
                          /\ o.st.mFbProducerSlot = CallSlot(o, 1)
                          /\ o.st.mOutputProducerSlot = CallSlot(o, 1)
                    /\ mCompositionType = "GLES" =>
                          /\ deq = {}
                          /\ o.st.mFbProducerSlot = mFbProducerSlot
                          /\ o.st.mOutputProducerSlot = mFbProducerSlot
                    /\ mCompositionType = "MIXED" =>
                          /\ deq = {1}
                          /\ o.st.mFbProducerSlot = mFbProducerSlot
                          /\ o.st.mOutputProducerSlot = CallSlot(o, 1)
                    /\ \A i \in CallsTo(o, "HWC", "fbPost") :
                          /\ CallSlot(o, i) = o.st.mFbProducerSlot
                          /\ CallBuffer(o, i) = o.st.mProducerBuffers[o.st.mFbProducerSlot]
                    /\ \A i \in CallsTo(o, "HWC", "setOutputBuffer") :
                          /\ CallSlot(o, i) = o.st.mOutputProducerSlot
                          /\ CallBuffer(o, i) = o.st.mProducerBuffers[o.st.mOutputProducerSlot]

\* advanceFrame has submitted a MIXED frame: the framebuffer is a scratch slot
\* and the output another slot, of the sink
C3_Witness ==
    /\ mDisplayId >= 0
    /\ mDbgState = "HWC"
    /\ mCompositionType = "MIXED"
    /\ mFbProducerSlot >= 0
    /\ mOutputProducerSlot >= 0
    /\ mOutputProducerSlot # mFbProducerSlot
    /\ SlotSource(mProducerSlotSource, mFbProducerSlot) = SOURCE_SCRATCH
    /\ SlotSource(mProducerSlotSource, mOutputProducerSlot) = SOURCE_SINK

C5_OneOwner ==
    /\ mProducerSlotSource \in 0 .. (Pow2(NUM_BUFFER_SLOTS) - 1)
    /\ \A p \in Slots : SlotSource(mProducerSlotSource, p) \in Sources
    /\ \A source \in Sources :
       \A a \in DequeueAnswers(source) :
          a.result >= 0 =>
              LET p == IF source = SOURCE_SCRATCH
                       THEN NUM_BUFFER_SLOTS - 1 - a.sslot
                       ELSE a.sslot
                  o == dequeueBuffer_Source(source, a, Cur)
              IN  /\ SlotSource(o.st.mProducerSlotSource, p) = source
                  /\ \A q \in Slots \ {p} :
                        SlotSource(o.st.mProducerSlotSource, q)
                            = SlotSource(mProducerSlotSource, q)
    /\ \A d \in GlesDims, a \in AnyDequeueAnswers :
          LET o == dequeueBuffer(d[1], d[2], a)
              source == IF mCompositionType = "MIXED" THEN SOURCE_SCRATCH ELSE SOURCE_SINK
          IN  o.ret >= 0 =>
                /\ SlotSource(o.st.mProducerSlotSource, o.slot) = source
                /\ \A q \in Slots \ {o.slot} :
                      SlotSource(o.st.mProducerSlotSource, q)
                          = SlotSource(mProducerSlotSource, q)

(* C5: every producer slot has exactly one owner, the sink or the scratch  *)
(* pool; the sink owns every slot at first; a successful dequeue through a *)
(* source makes that source the owner of the slot it returns and changes   *)
(* the owner of no other slot.                                             *)
C5_OwnershipExclusive == mProducerSlotSource = 0 /\ []C5_OneOwner

\* the two sources own a slot each, with a buffer of their own in it
C5_Witness ==
    \E p \in Slots, q \in Slots :
        /\ SlotSource(mProducerSlotSource, p) = SOURCE_SINK
        /\ mProducerBuffers[p] = Buffer(SOURCE_SINK, p)
        /\ SlotSource(mProducerSlotSource, q) = SOURCE_SCRATCH
        /\ mProducerBuffers[q] = Buffer(SOURCE_SCRATCH, NUM_BUFFER_SLOTS - 1 - q)


(* C6: on a display with mDisplayId >= 0 the composer never gets a buffer  *)
(* picked by a negative slot.  When advanceFrame gets past the sink's      *)
(* dequeue with the framebuffer slot or the output slot below 0 it returns *)
(* NO_MEMORY, calls neither fbPost nor setOutputBuffer and leaves the      *)
(* frame state HWC; onFrameCommitted then leaves IDLE.                     *)
C6_NoBufferBailout ==
    mDisplayId >= 0 =>
        /\ \A a \in DequeueAnswers(SOURCE_SINK), h \in PostAnswers :
              LET o == advanceFrame(a, h)
                  pastDequeue == mCompositionType = "GLES" \/ a.result >= 0
              IN  /\ \A i \in Submissions(o) : CallSlot(o, i) \in Slots
                  /\ (/\ pastDequeue
                      /\ o.st.mFbProducerSlot < 0 \/ o.st.mOutputProducerSlot < 0)
                        => /\ o.ret = NO_MEMORY
                           /\ Submissions(o) = {}
                           /\ o.st.mDbgState = "HWC"
        /\ \A c \in CommitAnswers : onFrameCommitted(c).st.mDbgState = "IDLE"

\* advanceFrame has run on a GLES frame that never got a framebuffer
C6_Witness ==
    /\ mDisplayId >= 0
    /\ mDbgState = "HWC"
    /\ mCompositionType = "GLES"
    /\ mFbProducerSlot < 0

(* C7: when a dequeue through a source succeeds and the source's answer    *)
(* carries RELEASE_ALL_BUFFERS, every slot that source owns is left        *)
(* without a buffer, but the slot dequeued, which holds the buffer just    *)
(* requested if reallocation was flagged; the other source's slots keep    *)
(* their buffers.                                                          *)
C7_ReleaseAllClearsOwned ==
    \A source \in Sources :
    \A a \in DequeueAnswers(source) :
        HasFlag(a.result, RELEASE_ALL_BUFFERS) =>
            LET p == IF source = SOURCE_SCRATCH
                     THEN NUM_BUFFER_SLOTS - 1 - a.sslot
                     ELSE a.sslot
                o == dequeueBuffer_Source(source, a, Cur)
            IN  \A i \in Slots :
                    IF i = p
                    THEN o.st.mProducerBuffers[i]
                            = IF HasFlag(o.ret, BUFFER_NEEDS_REALLOCATION)
                              THEN Buffer(source, a.sslot)
                              ELSE NoBuffer
                    ELSE IF SlotSource(o.st.mProducerSlotSource, i) = source
                    THEN o.st.mProducerBuffers[i] = NoBuffer
                    ELSE o.st.mProducerBuffers[i] = mProducerBuffers[i]

(* C8: on a display with mDisplayId < 0 prepareFrame, advanceFrame and     *)
(* onFrameCommitted call neither the sink nor the scratch pool nor the     *)
(* composer and leave every field as it was, the first two returning       *)
(* NO_ERROR; and the producer handed out is the sink.                      *)
C8_Passthrough ==
    mDisplayId < 0 =>
        /\ getIGraphicBufferProducer = "sink"
        /\ \A t \in CompositionTypes :
              LET o == prepareFrame(t)
              IN  o.ret = NO_ERROR /\ NoCalls(o) /\ o.st = Cur
        /\ \A a \in DequeueAnswers(SOURCE_SINK), h \in PostAnswers :
              LET o == advanceFrame(a, h)
              IN  o.ret = NO_ERROR /\ NoCalls(o) /\ o.st = Cur
        /\ \A c \in CommitAnswers :
              LET o == onFrameCommitted(c)
              IN  NoCalls(o) /\ o.st = Cur

\* a display without a hardware composer id, as constructed and as the three
\* calls leave it
C8_Witness ==
    /\ mDisplayId < 0
    /\ getIGraphicBufferProducer = "sink"
    /\ mDbgState = "IDLE"
    /\ PerFrameDefaults(Cur)
    /\ mProducerSlotSource = 0

(* C9: on a display with mDisplayId >= 0, when the frame is not a GLES     *)
(* frame and the sink's dequeue fails, advanceFrame returns the sink's     *)
(* error, makes no composer call and leaves the framebuffer slot, the      *)
(* output slot, the framebuffer fence, the ownership mask and the buffer   *)
(* table as they were; on a GLES frame advanceFrame asks the sink for no   *)
(* buffer.                                                                 *)
C9_SinkDequeueFailure ==
    mDisplayId >= 0 =>
        \A a \in DequeueAnswers(SOURCE_SINK), h \in PostAnswers :
            LET o == advanceFrame(a, h)
            IN  /\ (mCompositionType # "GLES" /\ a.result < 0) =>
                      /\ o.ret = a.result
                      /\ CallsTo(o, "SINK", "dequeueBuffer") = {1}
                      /\ Len(o.calls) = 1
                      /\ o.st.mFbProducerSlot = mFbProducerSlot
                      /\ o.st.mOutputProducerSlot = mOutputProducerSlot
                      /\ o.st.mFbFence = mFbFence
                      /\ o.st.mProducerSlotSource = mProducerSlotSource
                      /\ o.st.mProducerBuffers = mProducerBuffers
                /\ mCompositionType = "GLES" =>
                      \A i \in 1 .. Len(o.calls) : o.calls[i][1] # "SINK"

\* advanceFrame has run on a MIXED frame whose framebuffer was queued, and the
\* sink gave no output buffer
C9_Witness ==
    /\ mDisplayId >= 0
    /\ mDbgState = "HWC"
    /\ mCompositionType = "MIXED"
    /\ mFbProducerSlot >= 0
    /\ mFbFence # NO_FENCE
    /\ mOutputProducerSlot = -1

\* the frame state a call leaves, whatever the state it is made in
C10_Targets(onHwcDisplay) ==
    /\ onHwcDisplay =>
          /\ \A t \in CompositionTypes :
                LET o == prepareFrame(t)
                IN  /\ o.st.mDbgState = "PREPARED"
                    /\ o.st.mCompositionType = t
                    /\ o.ret = NO_ERROR
          /\ \A a \in DequeueAnswers(SOURCE_SINK), h \in PostAnswers :
                advanceFrame(a, h).st.mDbgState = "HWC"
          /\ \A c \in CommitAnswers : onFrameCommitted(c).st.mDbgState = "IDLE"
    /\ \A d \in GlesDims, a \in AnyDequeueAnswers :
          dequeueBuffer(d[1], d[2], a).st.mDbgState = "GLES"
    /\ \A p \in Slots, f \in Fences, a \in AcquireAnswers :
          queueBuffer(p, f, a).st.mDbgState = "GLES_DONE"
    /\ \A p \in Slots :
          /\ requestBuffer(p).st.mDbgState = mDbgState
          /\ requestBuffer(p).ret = NO_ERROR
    /\ \A p \in Slots, f \in Fences : cancelBuffer(p, f).st.mDbgState = mDbgState

(* C10 as stated: each call leaves one fixed frame state whatever the      *)
(* state it is made in and is never refused: prepareFrame PREPARED, with   *)
(* the type recorded, dequeueBuffer GLES, queueBuffer GLES_DONE,           *)
(* advanceFrame HWC, onFrameCommitted IDLE; requestBuffer and cancelBuffer *)
(* leave the state as it is.                                               *)
C10_FixedTargets == C10_Targets(TRUE)

(* C10 as amended: the same, with prepareFrame, advanceFrame and           *)
(* onFrameCommitted moving the state only on a display with                *)
(* mDisplayId >= 0; on a display with mDisplayId < 0 the three leave the   *)
(* frame state and the type as they are.                                   *)
C10_FixedTargetsOnHwcDisplay ==
    /\ C10_Targets(mDisplayId >= 0)
    /\ mDisplayId < 0 =>
          /\ \A t \in CompositionTypes :
                /\ prepareFrame(t).st.mDbgState = mDbgState
                /\ prepareFrame(t).st.mCompositionType = mCompositionType
          /\ \A a \in DequeueAnswers(SOURCE_SINK), h \in PostAnswers :
                advanceFrame(a, h).st.mDbgState = mDbgState
          /\ \A c \in CommitAnswers : onFrameCommitted(c).st.mDbgState = mDbgState

\* prepareFrame has run out of order and was not refused: the frame is
\* PREPARED while the slots of the frame before, never committed, are still set
C10_Witness ==
    /\ mDisplayId >= 0
    /\ mDbgState = "PREPARED"
    /\ mFbProducerSlot >= 0
    /\ mOutputProducerSlot >= 0

(* C11: on a display with mDisplayId >= 0, in a frame run in protocol      *)
(* order, whatever failed in it (the renderer's dequeueBuffer, the scratch *)
(* pool's queueBuffer or acquire, the sink's dequeueBuffer in              *)
(* advanceFrame, fbPost or setOutputBuffer, the sink's queueBuffer in      *)
(* onFrameCommitted): advanceFrame leaves the frame state HWC,             *)
(* onFrameCommitted then leaves IDLE with the per-frame defaults, and the  *)
(* caller between two frames finds IDLE and the defaults.                  *)
C11_NoStall ==
    (mDisplayId >= 0 /\ pc # "off") =>
        /\ pc = "idle" => mDbgState = "IDLE" /\ PerFrameDefaults(Cur)
        /\ pc \in {"prepared", "norender", "queued", "cancelled"} =>
              \A a \in SinkAnswers, h \in PostAnswers :
                  advanceFrame(a, h).st.mDbgState = "HWC"
        /\ pc = "advanced" =>
              /\ mDbgState = "HWC"
              /\ \A c \in CommitAnswers :
                    LET o == onFrameCommitted(c)
                    IN  o.st.mDbgState = "IDLE" /\ PerFrameDefaults(o.st)

\* a MIXED frame in which the renderer got or queued no buffer and the sink
\* gave none to advanceFrame: the frame state moved on to HWC all the same
C11_Witness ==
    /\ mDisplayId >= 0
    /\ pc = "advanced"
    /\ mDbgState = "HWC"
    /\ mCompositionType = "MIXED"
    /\ mFbProducerSlot = -1
    /\ mOutputProducerSlot = -1

C13_CommitReturnsBuffers ==
    mDisplayId >= 0 =>
        \A c \in CommitAnswers :
            LET o == onFrameCommitted(c)
                fen == CallsTo(o, "SCRATCH", "addReleaseFence")
                rel == CallsTo(o, "SCRATCH", "releaseBuffer")
                que == CallsTo(o, "SINK", "queueBuffer")
            IN  /\ rel # {} <=> (mCompositionType = "MIXED" /\ mFbProducerSlot >= 0)
                /\ Cardinality(rel) <= 1 /\ Cardinality(fen) = Cardinality(rel)
                /\ \A i \in rel :
                      /\ CallSlot(o, i) = NUM_BUFFER_SLOTS - 1 - mFbProducerSlot
                      /\ \A j \in fen :
                            /\ j < i
                            /\ CallSlot(o, j) = CallSlot(o, i)
                            /\ CallFence(o, j) = c.fbFence
                /\ que # {} <=> mOutputProducerSlot >= 0
                /\ Cardinality(que) <= 1
                /\ \A i \in que :
                      /\ CallSlot(o, i) = mOutputProducerSlot
                      /\ CallFence(o, i) = c.outFence
                /\ \A i \in 1 .. Len(o.calls) :
                      o.calls[i][1] \in {"SINK", "SCRATCH"} =>
                          i \in fen \cup rel \cup que
                /\ o.st.mFbProducerSlot = -1 /\ o.st.mOutputProducerSlot = -1

\* between two frames run in order, after a frame that used a buffer of the
\* scratch pool and one of the sink: both pools have all their buffers back
C13_Witness ==
    /\ mDisplayId >= 0
    /\ pc = "idle"
    /\ strayCalls = 0
    /\ \E p, q \in Slots :
          /\ mProducerBuffers[p] # NoBuffer /\ mProducerBuffers[p][1] = SOURCE_SCRATCH
          /\ mProducerBuffers[q] # NoBuffer /\ mProducerBuffers[q][1] = SOURCE_SINK
    /\ sinkDequeued = {}
    /\ \A s \in DOMAIN scratchSlots : scratchSlots[s] = "FREE"

(* C14: on a display with mDisplayId >= 0 every buffer advanceFrame hands  *)
(* to the composer goes with the fence that came with it.  On a HWC frame  *)
(* fbPost and setOutputBuffer carry the buffer and the fence of this       *)
(* advanceFrame's sink dequeue; on a GLES frame both carry the framebuffer *)
(* slot's buffer and mFbFence, which queueBuffer took from its input; on   *)
(* any other frame fbPost carries the framebuffer slot's buffer and        *)
(* mFbFence, on a MIXED frame the fence of the scratch item acquired, and  *)
(* setOutputBuffer the buffer and fence of this advanceFrame's sink        *)
(* dequeue.  setOutputBuffer is called only after an fbPost of the same    *)
(* advanceFrame returned NO_ERROR.                                         *)
C14_FencePairing ==
    mDisplayId >= 0 =>
        /\ \A a \in DequeueAnswers(SOURCE_SINK), h \in PostAnswers :
              LET o == advanceFrame(a, h)
                  post == CallsTo(o, "HWC", "fbPost")
                  out == CallsTo(o, "HWC", "setOutputBuffer")
                  fbSlot == IF mCompositionType = "HWC"
                            THEN a.sslot ELSE mFbProducerSlot
                  fbFence == IF mCompositionType = "HWC"
                             THEN a.fence ELSE mFbFence
                  outSlot == IF mCompositionType = "GLES"
                             THEN mFbProducerSlot ELSE a.sslot
                  outFence == IF mCompositionType = "GLES"
                              THEN mFbFence ELSE a.fence
              IN  /\ Cardinality(post) <= 1 /\ Cardinality(out) <= 1
                  /\ \A i \in post :
                        /\ CallSlot(o, i) = fbSlot
                        /\ CallFence(o, i) = fbFence
                        /\ CallBuffer(o, i) = o.st.mProducerBuffers[fbSlot]
                  /\ \A j \in out :
                        /\ CallSlot(o, j) = outSlot
                        /\ CallFence(o, j) = outFence
                        /\ CallBuffer(o, j) = o.st.mProducerBuffers[outSlot]
                        /\ \E i \in post : i < j /\ o.calls[i][6] = NO_ERROR
        /\ \A p \in Slots, f \in Fences, a \in AcquireAnswers :
              LET o == queueBuffer(p, f, a)
              IN  o.ret = NO_ERROR =>
                      o.st.mFbFence = IF mCompositionType = "MIXED"
                                      THEN a.fence ELSE f

\* advanceFrame has run on a HWC frame: the framebuffer is the output buffer
\* and mFbFence is the fence the sink gave with it
C14_Witness ==
    /\ mDisplayId >= 0
    /\ mDbgState = "HWC"
    /\ mCompositionType = "HWC"
    /\ mFbProducerSlot >= 0
    /\ mFbProducerSlot = mOutputProducerSlot
    /\ mFbFence # NO_FENCE

(* C15: cancelBuffer(pslot, fence) makes one call: cancelBuffer, with the  *)
(* fence given, on the scratch pool for native slot N-1-pslot when the     *)
(* frame is MIXED and on the sink for native slot pslot otherwise.  It     *)
(* leaves every field as it was: the ownership mask, the buffer table, the *)
(* frame state, the framebuffer slot, the output slot and the framebuffer  *)
(* fence.                                                                  *)
C15_CancelBuffer ==
    \A p \in Slots, f \in Fences :
        LET o == cancelBuffer(p, f)
        IN  /\ Len(o.calls) = 1
            /\ o.calls[1][2] = "cancelBuffer"
            /\ o.calls[1][1] = IF mCompositionType = "MIXED"
                               THEN "SCRATCH" ELSE "SINK"
            /\ CallSlot(o, 1) = IF mCompositionType = "MIXED"
                                THEN NUM_BUFFER_SLOTS - 1 - p ELSE p
            /\ CallFence(o, 1) = f
            /\ o.st = Cur

\* the renderer dequeued a scratch buffer on a MIXED frame and cancelled it:
\* the pool has the slot back, the producer slot is still the scratch pool's
\* and still holds its buffer, and the frame state is still GLES
C15_Witness ==
    /\ pc = "cancelled"
    /\ mCompositionType = "MIXED"
    /\ mDbgState = "GLES"
    /\ \A s \in DOMAIN scratchSlots : scratchSlots[s] = "FREE"
    /\ \E p \in Slots :
          /\ SlotSource(mProducerSlotSource, p) = SOURCE_SCRATCH
          /\ mProducerBuffers[p] = Buffer(SOURCE_SCRATCH, NUM_BUFFER_SLOTS - 1 - p)
    /\ mFbProducerSlot = -1

\* the outcome leaves the ownership mask and the buffer table as they are
C16_Keeps(o) ==
    /\ o.st.mProducerSlotSource = mProducerSlotSource
    /\ o.st.mProducerBuffers = mProducerBuffers

(* C16: the ownership mask and the buffer table change only in a dequeue   *)
(* that succeeds.  prepareFrame, queueBuffer, cancelBuffer, requestBuffer, *)
(* setBufferCount, connect, disconnect, query, setSynchronousMode and      *)
(* onFrameCommitted leave both as they were, so the per-frame reset does   *)
(* not touch them; dequeueBuffer changes them only when the source gave a  *)
(* slot, and advanceFrame only when it dequeued a slot from the sink.      *)
C16_RecordsChangeOnlyInDequeue ==
    /\ \A t \in CompositionTypes : C16_Keeps(prepareFrame(t))
    /\ \A p \in Slots, f \in Fences :
          /\ C16_Keeps(cancelBuffer(p, f))
          /\ C16_Keeps(requestBuffer(p))
          /\ \A a \in AcquireAnswers : C16_Keeps(queueBuffer(p, f, a))
    /\ \A r \in {NO_ERROR, -22} :
          /\ C16_Keeps(setBufferCount(r))
          /\ C16_Keeps(query(r))
          /\ C16_Keeps(setSynchronousMode(r))
          /\ C16_Keeps(disconnect(r))
          /\ \A q \in SinkDims : C16_Keeps(connect(r, q))
    /\ \A c \in CommitAnswers : C16_Keeps(onFrameCommitted(c))
    /\ \A d \in GlesDims, a \in AnyDequeueAnswers :
          ~C16_Keeps(dequeueBuffer(d[1], d[2], a)) => a.result >= 0
    /\ \A a \in DequeueAnswers(SOURCE_SINK), h \in PostAnswers :
          LET o == advanceFrame(a, h)
          IN  ~C16_Keeps(o) =>
                  /\ a.result >= 0
                  /\ CallsTo(o, "SINK", "dequeueBuffer") # {}

\* between two frames: the frame state is IDLE with the per-frame defaults,
\* and slots tagged and filled in the frames before are still so
C16_Witness ==
    /\ mDisplayId >= 0
    /\ mDbgState = "IDLE"
    /\ mFbProducerSlot = -1
    /\ mProducerSlotSource # 0
    /\ \E p \in Slots :
          /\ SlotSource(mProducerSlotSource, p) = SOURCE_SCRATCH
          /\ mProducerBuffers[p] = Buffer(SOURCE_SCRATCH, NUM_BUFFER_SLOTS - 1 - p)

(* C17: a failure of the source in a call of the GLES driver comes back     *)
(* with the source's status and leaves the routing as it was.  A            *)
(* dequeueBuffer whose source fails returns that status, leaves the         *)
(* ownership mask and the buffer table unchanged, asks no source for a      *)
(* buffer and reports no slot; a queueBuffer of a MIXED frame whose scratch *)
(* queueBuffer or acquire fails returns that status and leaves the          *)
(* framebuffer slot and the framebuffer fence unchanged.                    *)
C17_RendererFailure ==
    /\ \A d \in GlesDims, a \in AnyDequeueAnswers :
          a.result < 0 =>
              LET o == dequeueBuffer(d[1], d[2], a)
              IN  /\ o.ret = a.result
                  /\ o.st.mProducerSlotSource = mProducerSlotSource
                  /\ o.st.mProducerBuffers = mProducerBuffers
                  /\ \A i \in DOMAIN o.calls : o.calls[i][2] # "requestBuffer"
                  /\ o.slot = -1
    /\ mCompositionType = "MIXED" =>
          \A p \in Slots, f \in Fences, a \in AcquireAnswers :
              (a.queued # NO_ERROR \/ a.acquired # NO_ERROR) =>
                  LET o == queueBuffer(p, f, a)
                  IN  /\ o.ret = IF a.queued # NO_ERROR THEN a.queued ELSE a.acquired
                      /\ o.ret # NO_ERROR
                      /\ o.st.mFbProducerSlot = mFbProducerSlot
                      /\ o.st.mFbFence = mFbFence

\* the source refused the GLES driver a buffer in this frame, slots of earlier
\* frames are still tagged
C17_Witness ==
    /\ pc = "norender"
    /\ mDbgState = "GLES"
    /\ mCompositionType = "MIXED"
    /\ mProducerSlotSource # 0

C19_Acquired(b) == {s \in DOMAIN b.scratch : b.scratch[s] = "ACQUIRED"}

\* the outcome makes no call `op` on the scratch pool
C19_Never(o, op) == CallsTo(o, "SCRATCH", op) = {}

(* C19: the scratch pool's balance.  While the calls come in the order of  *)
(* the protocol, whatever the pools and the composer answer, at most one   *)
(* scratch buffer is acquired and not released, and none when the frame    *)
(* state is IDLE; a buffer is acquired only by queueBuffer; the            *)
(* onFrameCommitted that ends the frame releases the buffer acquired in    *)
(* it, and no other handler releases a scratch buffer.                     *)
C19_ScratchBalance ==
    pc # "off" =>
        /\ Cardinality(C19_Acquired(CurBooks)) <= 1
        /\ mDbgState = "IDLE" => C19_Acquired(CurBooks) = {}
        /\ pc \in {"idle", "prepared", "rendering", "norender", "cancelled"}
               => C19_Acquired(CurBooks) = {}
        /\ pc = "advanced" =>
              \A c \in CommitAnswers :
                  LET o == onFrameCommitted(c)
                  IN  /\ C19_Acquired(booksAfter(CurBooks, o.calls)) = {}
                      /\ \A i \in CallsTo(o, "SCRATCH", "releaseBuffer") :
                            CallSlot(o, i) \in C19_Acquired(CurBooks)
        /\ \A t \in CompositionTypes :
              /\ C19_Never(prepareFrame(t), "releaseBuffer")
              /\ C19_Never(prepareFrame(t), "acquireBuffer")
        /\ \A c \in CommitAnswers : C19_Never(onFrameCommitted(c), "acquireBuffer")
        /\ \A a \in SinkAnswers, h \in PostAnswers :
              /\ C19_Never(advanceFrame(a, h), "releaseBuffer")
              /\ C19_Never(advanceFrame(a, h), "acquireBuffer")
              /\ C19_Acquired(booksAfter(CurBooks, advanceFrame(a, h).calls))
                     = C19_Acquired(CurBooks)
        /\ \A d \in GlesDims, a \in AnyDequeueAnswers :
              /\ C19_Never(dequeueBuffer(d[1], d[2], a), "releaseBuffer")
              /\ C19_Never(dequeueBuffer(d[1], d[2], a), "acquireBuffer")
        /\ \A p \in Slots, f \in Fences :
              /\ C19_Never(cancelBuffer(p, f), "releaseBuffer")
              /\ C19_Never(cancelBuffer(p, f), "acquireBuffer")
              /\ C19_Never(requestBuffer(p), "releaseBuffer")
              /\ \A a \in AcquireAnswers :
                    C19_Never(queueBuffer(p, f, a), "releaseBuffer")

\* a MIXED frame came as far as its commit with the scratch pool's last
\* buffer, which is producer slot 0, acquired
C19_Witness ==
    /\ pc = "advanced"
    /\ mCompositionType = "MIXED"
    /\ mFbProducerSlot = 0
    /\ C19_Acquired(CurBooks) = {mapProducer2SourceSlot(SOURCE_SCRATCH, 0)}

\* the sink's slot that the fields st keep for onFrameCommitted to queue
C20_Pending(st) ==
    IF st.mOutputProducerSlot >= 0
    THEN {mapProducer2SourceSlot(SOURCE_SINK, st.mOutputProducerSlot)}
    ELSE {}

\* the sink's slots handed out once the outcome's calls are made
C20_Out(o) == booksAfter(CurBooks, o.calls).sink

\* What advanceFrame and onFrameCommitted do with the sink's slots.  With
\* anyOrder the two are taken at every state, otherwise at their positions in
\* the protocol.
C20_Balance(anyOrder) ==
    /\ (anyOrder \/ pc \in {"prepared", "norender", "queued", "cancelled"}) =>
          \A a \in SinkAnswers, h \in PostAnswers :
              LET o == advanceFrame(a, h)
              IN  \* the slot kept for the commit is one the sink handed out
                  /\ C20_Pending(o.st) \subseteq C20_Out(o)
                  \* a slot handed out and kept for the commit is not forgotten
                  /\ (C20_Pending(Cur) \cap sinkDequeued) \subseteq C20_Pending(o.st)
    /\ (anyOrder \/ pc = "advanced") =>
          \A c \in CommitAnswers :
              LET o == onFrameCommitted(c)
                  queued == CallsTo(o, "SINK", "queueBuffer")
              IN  /\ Cardinality(queued) <= 1
                  /\ \A i \in queued : CallSlot(o, i) \in sinkDequeued
                  /\ C20_Pending(Cur) \cap C20_Out(o) = {}

===========================================================================
